---- MODULE Spec2Model ----
(***************************************************************************)
(* Model of gerrit_repository_compare_requests.py: Repository_Compare      *)
(* fetches a Gerrit change, lists its files, fetches each file's diff and  *)
(* renders it as text.                                                     *)
(*                                                                         *)
(* Strings are sequences of pieces.  A response text is a sequence of      *)
(* tokens: [c |-> ch] for a character, [doc |-> d] for the characters of   *)
(* one JSON document d, [junk |-> s] for characters that are not JSON.     *)
(* A path is a sequence of one-character strings.  A message is a          *)
(* sequence of strings (literal pieces, path characters, diff lines).      *)
(***************************************************************************)
EXTENDS Integers, Sequences, FiniteSets, TLC

VARIABLES
    pc,           \* position in Repository_Compare
    requests,     \* the calls of session.get in order: [url, resp]
    revision_id,  \* local revision_id
    file_list,    \* local file_list
    idx,          \* number of completed iterations of the for loop
    results,      \* local results
    raised,       \* the exception that left Repository_Compare, or None
    r_pc,         \* position in repository_compare
    diff_info,    \* repository_compare: local diff_info
    i,            \* repository_compare: number of blocks already rendered
    output        \* repository_compare: local output

vars == <<pc, requests, revision_id, file_list, idx, results, raised,
          r_pc, diff_info, i, output>>

mainVars == <<pc, requests, revision_id, file_list, idx, results, raised>>

renderVars == <<r_pc, diff_info, i, output>>

-----------------------------------------------------------------------------
(* Bounds of the model.                                                    *)

MaxFiles == 3      \* longest file listing
MaxBlocks == 3     \* most blocks in a rendered diff
MaxAbLen == 5      \* longest unchanged-context block
MaxChgLen == 5     \* length of a non-empty removed / added side of a changed block

-----------------------------------------------------------------------------
(* Python values.                                                          *)

None == "<None>"

Min(x, y) == IF x < y THEN x ELSE y

Max(x, y) == IF x > y THEN x ELSE y

\* s[start:stop] for a list s, as Python clamps the indices.
PySlice(s, start, stop) ==
    LET n == Len(s)
        lo == IF start < 0 THEN Max(n + start, 0) ELSE Min(start, n)
        hi == IF stop < 0 THEN Max(n + stop, 0) ELSE Min(stop, n)
    IN  IF lo < hi THEN SubSeq(s, lo + 1, hi) ELSE <<>>

\* s[start:]
PySliceFrom(s, start) == PySlice(s, start, Len(s))

Chr(ch) == [c |-> ch]

NL == Chr("\n")

IsChr(tok, ch) == DOMAIN tok = {"c"} /\ tok.c = ch

\* index of the first token of text that is a newline, 0 when there is none
FirstNewline(text) ==
    LET hits == {j \in 1..Len(text) : IsChr(text[j], "\n")}
    IN  IF hits = {} THEN 0 ELSE CHOOSE j \in hits : \A k \in hits : j <= k

PREFIX == <<Chr(")"), Chr("]"), Chr("}"), Chr("'")>>

StartsWith(text, p) == Len(text) >= Len(p) /\ SubSeq(text, 1, Len(p)) = p

\* variant: drops the four prefix characters, not the rest of their line
StripPrefixOnly(text) ==
    IF StartsWith(text, PREFIX) THEN SubSeq(text, Len(PREFIX) + 1, Len(text)) ELSE text

strip_gerrit_json(text) ==
    IF StartsWith(text, PREFIX)
    THEN IF FirstNewline(text) # 0
         THEN SubSeq(text, FirstNewline(text) + 1, Len(text))
         ELSE <<>>
    ELSE text

\* json.loads: whitespace around one document is skipped; anything else is a
\* JSONDecodeError.
Unspace(text) == SelectSeq(text, LAMBDA tok : ~IsChr(tok, "\n"))

JSONDecodeError == [t |-> "JSONDecodeError"]

json_loads(text) ==
    LET s == Unspace(text)
    IN  IF Len(s) = 1 /\ DOMAIN s[1] = {"doc"} THEN s[1].doc ELSE JSONDecodeError

-----------------------------------------------------------------------------
(* Paths and the extension denylist.                                       *)

UPPER == <<"A", "B", "C", "D", "E", "F", "G", "H", "I", "J", "K", "L", "M",
           "N", "O", "P", "Q", "R", "S", "T", "U", "V", "W", "X", "Y", "Z">>

LOWER == <<"a", "b", "c", "d", "e", "f", "g", "h", "i", "j", "k", "l", "m",
           "n", "o", "p", "q", "r", "s", "t", "u", "v", "w", "x", "y", "z">>

UpperSet == {UPPER[k] : k \in 1..Len(UPPER)}

LowerTable == [ch \in UpperSet |-> LOWER[CHOOSE k \in 1..Len(UPPER) : UPPER[k] = ch]]

\* str.lower, one character
LowerChar(ch) == IF ch \in UpperSet THEN LowerTable[ch] ELSE ch

\* str.lower
Lower(s) == [j \in 1..Len(s) |-> LowerChar(s[j])]

\* str.rfind of one character, 1-based; 0 when the character does not occur
RFind(s, ch) ==
    LET hits == {j \in 1..Len(s) : s[j] = ch}
    IN  IF hits = {} THEN 0 ELSE CHOOSE j \in hits : \A k \in hits : k <= j

\* the second component of os.path.splitext(path): the text from the last dot
\* of the last path component, unless only dots precede it in the component
SplitExt(path) ==
    LET sepIndex == RFind(path, "/")
        dotIndex == RFind(path, ".")
    IN  IF /\ dotIndex > sepIndex
           /\ \E j \in (sepIndex + 1)..(dotIndex - 1) : path[j] # "."
        THEN SubSeq(path, dotIndex, Len(path))
        ELSE <<>>

ext_list == { <<".", "s", "o">>, <<".", "a">>, <<".", "m", "d">>,
              <<".", "p", "n", "g">>, <<".", "j", "p", "g">>,
              <<".", "j", "p", "e", "g">>, <<".", "g", "i", "f">>,
              <<".", "z", "i", "p">>, <<".", "t", "a", "r">>,
              <<".", "g", "z">>, <<".", "b", "z", "2">> }

\* variant: the extension is compared as written
IsIgnoredCaseSensitive(path) == SplitExt(path) \in ext_list

is_ignored_file(path) == Lower(SplitExt(path)) \in ext_list

COMMIT_MSG == <<"/", "C", "O", "M", "M", "I", "T", "_", "M", "S", "G">>

MERGE_LIST == <<"/", "M", "E", "R", "G", "E", "_", "L", "I", "S", "T">>

special_keys == {COMMIT_MSG, MERGE_LIST}

\* variant: list(file_data.keys())[1:]
DropFirstKey(keys) == IF keys = <<>> THEN <<>> ELSE Tail(keys)

\* [k for k in file_data.keys() if k not in special_keys]
FilterSpecial(keys) == SelectSeq(keys, LAMBDA k : k \notin special_keys)

\* urllib.parse.quote(path, safe=""): the characters of the modelled paths are
\* unreserved except "/", which is percent-encoded
quote(path) == [j \in 1..Len(path) |-> IF path[j] = "/" THEN "%2F" ELSE path[j]]

change_url == <<"{base_url}/a/changes/{change_id}", "?o=CURRENT_REVISION">>

file_url(rev) == <<"{base_url}/a/changes/{change_id}", "/revisions/", rev, "/files">>

path_url(rev, path) == file_url(rev) \o <<"/">> \o quote(path) \o <<"/diff">>

-----------------------------------------------------------------------------
(* Rendering of one diff.                                                  *)

\* "".join(f"{prefix}{line}\n" for line in lines)
RECURSIVE format_compare(_, _)
format_compare(lines, prefix) ==
    IF lines = <<>> THEN <<>>
    ELSE prefix \o <<Head(lines)>> \o <<"\n">> \o format_compare(Tail(lines), prefix)

\* variant: the test for the last block comes before the test for the first
RenderBlockLastFirst(info, k) ==
    LET block == info[k]
        keys == DOMAIN block
    IN  IF "ab" \in keys
        THEN IF k - 1 = Len(info) - 1
             THEN format_compare(PySlice(block.ab, 0, 4), <<>>)
             ELSE IF k - 1 = 0
                  THEN format_compare(PySliceFrom(block.ab, -4), <<>>)
                  ELSE format_compare(PySlice(block.ab, 0, 4), <<>>)
                       \o format_compare(PySliceFrom(block.ab, -4), <<>>)
        ELSE (IF "a" \in keys THEN format_compare(block.a, <<"-">>) ELSE <<>>)
             \o (IF "b" \in keys THEN format_compare(block.b, <<"+">>) ELSE <<>>)

\* variant: changed lines are cut to 4 like context lines
RenderBlockCutChanged(info, k) ==
    LET block == info[k]
        keys == DOMAIN block
    IN  IF "ab" \in keys
        THEN IF k - 1 = 0
             THEN format_compare(PySliceFrom(block.ab, -4), <<>>)
             ELSE IF k - 1 = Len(info) - 1
                  THEN format_compare(PySlice(block.ab, 0, 4), <<>>)
                  ELSE format_compare(PySlice(block.ab, 0, 4), <<>>)
                       \o format_compare(PySliceFrom(block.ab, -4), <<>>)
        ELSE (IF "a" \in keys
              THEN format_compare(PySlice(block.a, 0, 4), <<"-">>) ELSE <<>>)
             \o (IF "b" \in keys
                 THEN format_compare(PySlice(block.b, 0, 4), <<"+">>) ELSE <<>>)

\* the body of the for loop of repository_compare for the k-th block of info
\* (Python's i is k - 1): what the iteration appends to output
RenderBlock(info, k) ==
    LET block == info[k]
        keys == DOMAIN block
    IN  IF "ab" \in keys
        THEN IF k - 1 = 0
             THEN format_compare(PySliceFrom(block.ab, -4), <<>>)
             ELSE IF k - 1 = Len(info) - 1
                  THEN format_compare(PySlice(block.ab, 0, 4), <<>>)
                  ELSE format_compare(PySlice(block.ab, 0, 4), <<>>)
                       \o format_compare(PySliceFrom(block.ab, -4), <<>>)
        ELSE IF "a" \in keys /\ "b" \in keys
             THEN format_compare(block.a, <<"-">>) \o format_compare(block.b, <<"+">>)
             ELSE IF "a" \in keys
                  THEN format_compare(block.a, <<"-">>)
                  ELSE IF "b" \in keys
                       THEN format_compare(block.b, <<"+">>)
                       ELSE <<>>

\* output after the first k iterations of the loop
RECURSIVE RenderPrefix(_, _)
RenderPrefix(info, k) ==
    IF k = 0 THEN <<>> ELSE RenderPrefix(info, k - 1) \o RenderBlock(info, k)

IsObject(d) == d.t = "object"

\* diff_json.get("content", [])
GetContent(diff_json) ==
    IF "content" \in DOMAIN diff_json.m THEN diff_json.m.content ELSE <<>>

\* repository_compare(diff_json): [exc, val]; a diff_json that is no dict has
\* no get
repository_compare(diff_json) ==
    IF ~IsObject(diff_json)
    THEN [exc |-> "AttributeError", val |-> <<"'list' object has no attribute 'get'">>]
    ELSE LET info == GetContent(diff_json)
         IN  [exc |-> None,
              val |-> RenderPrefix(info, Len(info)) \o <<"\n", "\n", "\n">>]

Header(path) == <<"======== file: ">> \o path \o <<"\n", "\n">>

\* Response.raise_for_status raises for 4xx and 5xx
IsHTTPError(r) == r.status >= 400 /\ r.status < 600

\* variant: a diff that renders to nothing gives no message
MakeMessageSkipEmpty(path, r) ==
    IF is_ignored_file(path) THEN [exc |-> None, val |-> <<>>, got |-> FALSE]
    ELSE IF r.exc # None
    THEN [exc |-> r.exc, val |-> <<"connection failed">>, got |-> TRUE]
    ELSE IF IsHTTPError(r)
    THEN [exc |-> "HTTPError", val |-> <<"HTTP status error">>, got |-> TRUE]
    ELSE LET return_data == json_loads(strip_gerrit_json(r.text))
         IN  IF return_data = JSONDecodeError
             THEN [exc |-> "RuntimeError",
                   val |-> <<"Decode diff for ">> \o path \o <<" failed: ", "<raw>">>,
                   got |-> TRUE]
             ELSE LET body == repository_compare(return_data)
                  IN  IF body.exc # None
                      THEN [exc |-> body.exc, val |-> body.val, got |-> TRUE]
                      ELSE IF body.val = <<"\n", "\n", "\n">>
                           THEN [exc |-> None, val |-> <<>>, got |-> TRUE]
                           ELSE [exc |-> None, val |-> Header(path) \o body.val,
                                 got |-> TRUE]

\* make_message(file_path) when session.get(path_url) answers r:
\* [exc, val, got]; got tells whether session.get was called, and
\* r.exc # None is an exception raised by session.get itself.
make_message(path, r) ==
    IF is_ignored_file(path) THEN [exc |-> None, val |-> <<>>, got |-> FALSE]
    ELSE IF r.exc # None
    THEN [exc |-> r.exc, val |-> <<"connection failed">>, got |-> TRUE]
    ELSE IF IsHTTPError(r)
    THEN [exc |-> "HTTPError", val |-> <<"HTTP status error">>, got |-> TRUE]
    ELSE LET return_data == json_loads(strip_gerrit_json(r.text))
         IN  IF return_data = JSONDecodeError
             THEN [exc |-> "RuntimeError",
                   val |-> <<"Decode diff for ">> \o path \o <<" failed: ", "<raw>">>,
                   got |-> TRUE]
             ELSE LET body == repository_compare(return_data)
                  IN  IF body.exc # None
                      THEN [exc |-> body.exc, val |-> body.val, got |-> TRUE]
                      ELSE [exc |-> None, val |-> Header(path) \o body.val,
                            got |-> TRUE]

\* variant: the try statement has no except Exception clause
IterationOnlyHTTP(path, m) ==
    IF m.exc = None
    THEN [exc |-> None, add |-> IF m.val # <<>> THEN <<m.val>> ELSE <<>>]
    ELSE IF m.exc = "HTTPError"
         THEN [exc |-> None,
               add |-> << Header(path) \o <<"[HTTP error] ">> \o m.val
                          \o <<"\n", "\n">> >>]
         ELSE [exc |-> m.exc, add |-> <<>>]

\* lines 107-114, the try statement, given what make_message did:
\* [exc, add]; exc is an exception that leaves the statement, add is what is
\* appended to results.  Every class raised here derives from Exception.
Iteration(path, m) ==
    IF m.exc = None
    THEN [exc |-> None, add |-> IF m.val # <<>> THEN <<m.val>> ELSE <<>>]
    ELSE IF m.exc = "HTTPError"
         THEN [exc |-> None,
               add |-> << Header(path) \o <<"[HTTP error] ">> \o m.val
                          \o <<"\n", "\n">> >>]
         ELSE [exc |-> None,
               add |-> << Header(path) \o <<"[Error] ">> \o m.val
                          \o <<"\n", "\n">> >>]

-----------------------------------------------------------------------------
(* The three stages of Repository_Compare as functions of the responses.   *)

Exchange(url, r) == [url |-> url, resp |-> r]

\* variant: current_revision is used without the check of line 37
FetchRevisionUnchecked(r) ==
    IF r.exc # None THEN [exc |-> r.exc, val |-> None]
    ELSE IF IsHTTPError(r) THEN [exc |-> "HTTPError", val |-> None]
    ELSE LET change_data == json_loads(strip_gerrit_json(r.text))
         IN  IF change_data = JSONDecodeError
             THEN [exc |-> "RuntimeError", val |-> None]
             ELSE IF ~IsObject(change_data)
                  THEN [exc |-> "AttributeError", val |-> None]
                  ELSE [exc |-> None,
                        val |-> IF "current_revision" \in DOMAIN change_data.m
                                THEN change_data.m.current_revision
                                ELSE None]

\* lines 28-38: [exc, val]; val is revision_id
fetch_revision(r) ==
    IF r.exc # None THEN [exc |-> r.exc, val |-> None]
    ELSE IF IsHTTPError(r) THEN [exc |-> "HTTPError", val |-> None]
    ELSE LET change_data == json_loads(strip_gerrit_json(r.text))
         IN  IF change_data = JSONDecodeError
             THEN [exc |-> "RuntimeError", val |-> None]
             ELSE IF ~IsObject(change_data)
                  THEN [exc |-> "AttributeError", val |-> None]
                  ELSE LET rev == IF "current_revision" \in DOMAIN change_data.m
                                  THEN change_data.m.current_revision
                                  ELSE None
                       IN  IF rev = None \/ rev = ""
                           THEN [exc |-> "RuntimeError", val |-> None]
                           ELSE [exc |-> None, val |-> rev]

\* lines 41-52: [exc, val]; val is file_list
list_files(r) ==
    IF r.exc # None THEN [exc |-> r.exc, val |-> <<>>]
    ELSE IF IsHTTPError(r) THEN [exc |-> "HTTPError", val |-> <<>>]
    ELSE LET file_data == json_loads(strip_gerrit_json(r.text))
         IN  IF file_data = JSONDecodeError
             THEN [exc |-> "RuntimeError", val |-> <<>>]
             ELSE IF ~IsObject(file_data)
                  THEN [exc |-> "AttributeError", val |-> <<>>]
                  ELSE [exc |-> None, val |-> FilterSpecial(file_data.keys)]

-----------------------------------------------------------------------------
(* Inputs: what the server may answer.                                     *)

Obj(fields) == [t |-> "object", m |-> fields]

Arr == [t |-> "array"]

\* a JSON object of which only the keys, in document order, are read
Listing(keys) == [t |-> "object", keys |-> keys]

Junk == [junk |-> "<html>"]

FramedJunk == PREFIX \o <<NL, Junk>>

Framed(d) == PREFIX \o <<NL, [doc |-> d]>>

FramedLong(d) == PREFIX \o <<Chr("x"), NL, [doc |-> d]>>

Bare(d) == <<[doc |-> d]>>

Ok(text) == [exc |-> None, status |-> 200, text |-> text]

Failed(status) == [exc |-> None, status |-> status, text |-> <<Junk>>]

Unreachable == [exc |-> "ConnectionError", status |-> 0, text |-> <<>>]

Lines(n) == [j \in 1..n |-> ToString(j)]

P_src == <<"s", "r", "c", "/", "a", ".", "c">>

P_readme == <<"R", ".", "M", "D">>

P_dotfile == <<".", "m", "d">>

P_dir == <<"d", ".", "a", "/", "s", "o">>

Paths == {COMMIT_MSG, MERGE_LIST, P_src, P_readme, P_dotfile, P_dir}

\* the key sequences of a JSON object: no key twice
Listings ==
    {l \in UNION {[1..n -> Paths] : n \in 0..MaxFiles} :
        \A j, k \in DOMAIN l : j # k => l[j] # l[k]}

ChangeResponses ==
    { Unreachable, Failed(404),
      Ok(Framed(Obj([current_revision |-> "rev1"]))),
      Ok(Framed(Obj([current_revision |-> ""]))),
      Ok(Framed(Obj([status |-> "NEW"]))),
      Ok(Framed(Arr)),
      Ok(PREFIX),
      Ok(FramedJunk) }

FileResponses ==
    { Unreachable, Failed(500), Ok(Framed(Arr)), Ok(<<Junk>>) }
    \cup {Ok(Framed(Listing(l))) : l \in Listings}

SampleDiff ==
    Obj([content |-> << [ab |-> Lines(5)],
                        [a |-> Lines(1), b |-> Lines(2)],
                        [ab |-> Lines(2)] >>])

DiffResponses ==
    { Unreachable, Failed(404),
      Ok(Framed(Obj([change_type |-> "ADDED"]))),
      Ok(Bare(Obj([content |-> <<>>]))),
      Ok(Framed(SampleDiff)),
      Ok(FramedLong(Obj([content |-> << [b |-> Lines(1)] >>]))),
      Ok(Framed(Arr)),
      Ok(PREFIX) }

ChgLens == {0, MaxChgLen}

Blocks ==
    {[ab |-> Lines(n)] : n \in 0..MaxAbLen}
    \cup {[a |-> Lines(n)] : n \in ChgLens}
    \cup {[b |-> Lines(n)] : n \in ChgLens}
    \cup {[a |-> Lines(n), b |-> Lines(k)] : n \in ChgLens, k \in ChgLens}
    \cup {[skip |-> 7]}

DiffInfos == UNION {[1..n -> Blocks] : n \in 0..MaxBlocks}

-----------------------------------------------------------------------------
(* Repository_Compare.                                                     *)

Init ==
    /\ pc = "start"
    /\ requests = <<>>
    /\ revision_id = None
    /\ file_list = <<>>
    /\ idx = 0
    /\ results = <<>>
    /\ raised = None
    /\ r_pc = "idle"
    /\ diff_info = <<>>
    /\ i = 0
    /\ output = <<>>

\* lines 28-38
GetChange ==
    /\ pc = "start"
    /\ \E r \in ChangeResponses :
         LET got == fetch_revision(r)
         IN  /\ requests' = Append(requests, Exchange(change_url, r))
             /\ revision_id' = got.val
             /\ raised' = got.exc
             /\ pc' = IF got.exc = None THEN "files" ELSE "raised"
    /\ UNCHANGED <<file_list, idx, results>>
    /\ UNCHANGED renderVars

\* lines 41-52 and 105
GetFiles ==
    /\ pc = "files"
    /\ \E r \in FileResponses :
         LET got == list_files(r)
         IN  /\ requests' = Append(requests, Exchange(file_url(revision_id), r))
             /\ file_list' = got.val
             /\ raised' = got.exc
             /\ pc' = IF got.exc = None THEN "loop" ELSE "raised"
    /\ UNCHANGED <<revision_id, idx, results>>
    /\ UNCHANGED renderVars

\* variant: a file whose fetch failed is tried again
LoopIterRetry ==
    /\ pc = "loop"
    /\ idx < Len(file_list)
    /\ LET file_path == file_list[idx + 1]
       IN  \E r \in DiffResponses :
             LET m == make_message(file_path, r)
                 it == Iteration(file_path, m)
             IN  /\ requests' = IF m.got
                                THEN Append(requests,
                                            Exchange(path_url(revision_id, file_path), r))
                                ELSE requests
                 /\ results' = IF m.exc = None THEN results \o it.add ELSE results
                 /\ raised' = it.exc
                 /\ pc' = IF it.exc = None THEN "loop" ELSE "raised"
                 /\ idx' = IF m.exc = None THEN idx + 1 ELSE idx
    /\ UNCHANGED <<revision_id, file_list>>
    /\ UNCHANGED renderVars

\* lines 106-114: one iteration of the for loop
LoopIter ==
    /\ pc = "loop"
    /\ idx < Len(file_list)
    /\ LET file_path == file_list[idx + 1]
       IN  \E r \in DiffResponses :
             LET m == make_message(file_path, r)
                 it == Iteration(file_path, m)
             IN  /\ requests' = IF m.got
                                THEN Append(requests,
                                            Exchange(path_url(revision_id, file_path), r))
                                ELSE requests
                 /\ results' = results \o it.add
                 /\ raised' = it.exc
                 /\ pc' = IF it.exc = None THEN "loop" ELSE "raised"
    /\ idx' = idx + 1
    /\ UNCHANGED <<revision_id, file_list>>
    /\ UNCHANGED renderVars

\* line 116
Return ==
    /\ pc = "loop"
    /\ idx = Len(file_list)
    /\ pc' = "returned"
    /\ UNCHANGED <<requests, revision_id, file_list, idx, results, raised>>
    /\ UNCHANGED renderVars

Next == GetChange \/ GetFiles \/ LoopIter \/ Return

Spec == Init /\ [][Next]_vars

-----------------------------------------------------------------------------
(* repository_compare step by step, over every diff of the bounds.         *)

InitRender ==
    /\ pc = "start"
    /\ requests = <<>>
    /\ revision_id = None
    /\ file_list = <<>>
    /\ idx = 0
    /\ results = <<>>
    /\ raised = None
    /\ r_pc = "loop"
    /\ diff_info \in DiffInfos
    /\ i = 0
    /\ output = <<>>

\* lines 67-84: one iteration
RenderStep ==
    /\ r_pc = "loop"
    /\ i < Len(diff_info)
    /\ output' = output \o RenderBlock(diff_info, i + 1)
    /\ i' = i + 1
    /\ UNCHANGED <<r_pc, diff_info>>
    /\ UNCHANGED mainVars

\* line 85
RenderReturn ==
    /\ r_pc = "loop"
    /\ i = Len(diff_info)
    /\ output' = output \o <<"\n", "\n", "\n">>
    /\ r_pc' = "done"
    /\ UNCHANGED <<diff_info, i>>
    /\ UNCHANGED mainVars

NextRender == RenderStep \/ RenderReturn

SpecRender == InitRender /\ [][NextRender]_vars

-----------------------------------------------------------------------------
(* Properties of the rendering, checked under SpecRender.                  *)

\* a step of the loop of repository_compare that renders block number i + 1
IsRenderStep == r_pc = "loop" /\ i' = i + 1

\* the text of the given lines, each preceded by the pieces of lead and
\* followed by a newline
Emit(lines, lead) ==
    LET w == Len(lead) + 2
    IN  [j \in 1..(w * Len(lines)) |->
            LET pos == ((j - 1) % w) + 1
                line == ((j - 1) \div w) + 1
            IN  IF pos <= Len(lead) THEN lead[pos]
                ELSE IF pos = w THEN "\n" ELSE lines[line]]

FirstFour(lines) == [j \in 1..Min(4, Len(lines)) |-> lines[j]]

LastFour(lines) ==
    [j \in 1..Min(4, Len(lines)) |-> lines[Len(lines) - Min(4, Len(lines)) + j]]

C2_Expected(info, k) ==
    LET lines == info[k].ab
    IN  IF k = 1 THEN Emit(LastFour(lines), <<>>)
        ELSE IF k = Len(info) THEN Emit(FirstFour(lines), <<>>)
        ELSE Emit(FirstFour(lines), <<>>) \o Emit(LastFour(lines), <<>>)

\* C2: rendering an unchanged-context block appends only its last 4 lines when
\* it is the first block (also when it is the only block), only its first 4
\* lines when it is the last block and not the first, and its first 4 lines
\* followed by its last 4 lines otherwise; every line is unprefixed and
\* newline-terminated, and a block shorter than 4 lines gives all its lines for
\* each slice taken.
C2_ContextSlices ==
    [][(IsRenderStep /\ "ab" \in DOMAIN diff_info[i + 1])
          => output' = output \o C2_Expected(diff_info, i + 1)]_vars

\* a middle context block of 5 lines was rendered after a first block of 5 and
\* before a last block of 5
C2_Witness ==
    /\ r_pc = "done"
    /\ diff_info = <<[ab |-> Lines(5)], [ab |-> Lines(5)], [ab |-> Lines(5)]>>
    /\ output = << "2", "\n", "3", "\n", "4", "\n", "5", "\n",
                   "1", "\n", "2", "\n", "3", "\n", "4", "\n",
                   "2", "\n", "3", "\n", "4", "\n", "5", "\n",
                   "1", "\n", "2", "\n", "3", "\n", "4", "\n",
                   "\n", "\n", "\n" >>

C3_Expected(block) ==
    (IF "a" \in DOMAIN block THEN Emit(block.a, <<"-">>) ELSE <<>>)
    \o (IF "b" \in DOMAIN block THEN Emit(block.b, <<"+">>) ELSE <<>>)

\* C3: rendering a block without an "ab" key appends every line of "a" with a
\* "-" prefix and then every line of "b" with a "+" prefix, untruncated; only
\* "-" lines when there is no "b", only "+" lines when there is no "a", and
\* nothing when there is neither.
C3_ChangedBlock ==
    [][(IsRenderStep /\ "ab" \notin DOMAIN diff_info[i + 1])
          => output' = output \o C3_Expected(diff_info[i + 1])]_vars

\* a block with more than 4 removed and more than 4 added lines was rendered,
\* then a block with neither key
C3_Witness ==
    /\ i = 2
    /\ Len(diff_info) = 2
    /\ DOMAIN diff_info[1] = {"a", "b"}
    /\ Len(diff_info[1].a) > 4 /\ Len(diff_info[1].b) > 4
    /\ DOMAIN diff_info[2] = {"skip"}
    /\ Len(output) = 3 * (Len(diff_info[1].a) + Len(diff_info[1].b))
    /\ output[1] = "-" /\ output[Len(output) - 2] = "+"

\* the lines a render step appends for a context block: every second piece
AppendedLines(before, after) ==
    [j \in 1..((Len(after) - Len(before)) \div 2) |-> after[Len(before) + 2 * j - 1]]

\* C10: the lines emitted for an unchanged-context block of n lines come from
\* distinct line positions of the block, so there are at most min(n, 8) of
\* them.  (The lines of a modelled block are its position numbers.)
C10_NoDuplicateContext ==
    [][(IsRenderStep /\ "ab" \in DOMAIN diff_info[i + 1])
          => LET n == Len(diff_info[i + 1].ab)
                 em == AppendedLines(output, output')
             IN  /\ Len(em) <= Min(n, 8)
                 /\ \A j, k \in DOMAIN em : j # k => em[j] # em[k]]_vars

-----------------------------------------------------------------------------
(* Properties of Repository_Compare, checked under Spec.                   *)

Running == pc \in {"loop", "returned"}

UrlKind(url) ==
    IF url = change_url THEN "change"
    ELSE IF url[Len(url)] = "/files" THEN "files" ELSE "diff"

\* the keys of the file listing the server sent, in document order
ListingKeys ==
    LET text == requests[2].resp.text
    IN  text[Len(text)].doc.keys

\* the calls of session.get for the diff of path
DiffCalls(path) ==
    LET url == path_url(revision_id, path)
    IN  {k \in DOMAIN requests : requests[k].url = url}

\* the entries of results that begin with the header of path
EntriesOf(path) ==
    LET h == Header(path)
    IN  {k \in DOMAIN results : StartsWith(results[k], h)}

Sentinels == {COMMIT_MSG, MERGE_LIST}

Denylist == { <<".", "s", "o">>, <<".", "a">>, <<".", "m", "d">>,
              <<".", "p", "n", "g">>, <<".", "j", "p", "g">>,
              <<".", "j", "p", "e", "g">>, <<".", "g", "i", "f">>,
              <<".", "z", "i", "p">>, <<".", "t", "a", "r">>,
              <<".", "g", "z">>, <<".", "b", "z", "2">> }

\* path ends, whatever the case of its letters, with an extension e of the
\* denylist, and the file name has a character other than "." before it
Denylisted(path) ==
    \E e \in Denylist :
        LET at == Len(path) - Len(e)
        IN  /\ at >= 1
            /\ \A j \in 1..Len(e) : LowerChar(path[at + j]) = e[j]
            /\ \E j \in 1..at : /\ path[j] # "."
                                /\ \A k \in j..at : path[k] # "/"

\* the response makes the fetch of a diff fail
DiffFails(r) ==
    \/ r.exc # None
    \/ r.status \in 400..599
    \/ LET d == json_loads(strip_gerrit_json(r.text))
       IN  d = JSONDecodeError \/ d.t # "object"

\* C1: a failing diff fetch does not abort the run: the file gets exactly one
\* entry, its header followed by "[HTTP error]" for an HTTP error status and
\* by "[Error]" for any other failure, and the files after it are processed.
C1_ErrorIsolation ==
    /\ (\E k \in DOMAIN requests :
           UrlKind(requests[k].url) = "diff" /\ DiffFails(requests[k].resp))
          => Running /\ raised = None
    /\ Running =>
         \A j \in 1..idx :
           LET path == file_list[j]
           IN  \A k \in DiffCalls(path) :
                 LET r == requests[k].resp
                 IN  DiffFails(r) =>
                       /\ Cardinality(EntriesOf(path)) = 1
                       /\ \A n \in EntriesOf(path) :
                            StartsWith(results[n],
                                Header(path) \o
                                    (IF r.exc = None /\ r.status \in 400..599
                                     THEN <<"[HTTP error] ">> ELSE <<"[Error] ">>))
    /\ pc = "returned" =>
         /\ idx = Len(file_list)
         /\ \A j \in 1..Len(file_list) :
              ~Denylisted(file_list[j]) => DiffCalls(file_list[j]) # {}

\* the run returned after the first file failed with an HTTP status, the
\* second with a transport error, and the third was rendered
C1_Witness ==
    /\ pc = "returned"
    /\ Len(requests) = 5
    /\ requests[3].resp = Failed(404)
    /\ requests[4].resp = Unreachable
    /\ requests[5].resp = Ok(Framed(SampleDiff))
    /\ Len(results) = 3
    /\ StartsWith(results[1], Header(file_list[1]) \o <<"[HTTP error] ">>)
    /\ StartsWith(results[2], Header(file_list[2]) \o <<"[Error] ">>)
    /\ StartsWith(results[3], Header(file_list[3]) \o <<"2", "\n">>)

\* C4: the two sentinel pseudo-files are never fetched and never head an
\* entry of the results, wherever they are in the listing; every other key of
\* the listing is in the file list, in listing order.
C4_Sentinels ==
    Running =>
      /\ \A k \in DOMAIN file_list : file_list[k] \notin Sentinels
      /\ \A j \in DOMAIN ListingKeys :
           ListingKeys[j] \notin Sentinels
             => \E k \in DOMAIN file_list : file_list[k] = ListingKeys[j]
      /\ Len(file_list) =
           Cardinality({j \in DOMAIN ListingKeys : ListingKeys[j] \notin Sentinels})
      /\ \A k \in 1..(Len(file_list) - 1) :
           \E j1, j2 \in DOMAIN ListingKeys :
              /\ j1 < j2
              /\ ListingKeys[j1] = file_list[k]
              /\ ListingKeys[j2] = file_list[k + 1]
      /\ \A p \in Sentinels : DiffCalls(p) = {} /\ EntriesOf(p) = {}

\* a sentinel stood between two fetched files
C4_Witness ==
    /\ pc = "returned"
    /\ ListingKeys = <<P_src, MERGE_LIST, P_dir>>
    /\ file_list = <<P_src, P_dir>>
    /\ Len(requests) = 4
    /\ Len(results) = 2

\* C5: an iteration for a file with a denylisted extension, compared without
\* regard to case, issues no GET and leaves results unchanged; an iteration for
\* any other file issues the GET of that file's diff.
C5_IgnoredFrame ==
    [][(pc = "loop" /\ idx' = idx + 1) =>
          IF Denylisted(file_list[idx + 1])
          THEN requests' = requests /\ results' = results
          ELSE /\ Len(requests') = Len(requests) + 1
               /\ requests'[Len(requests')].url
                    = path_url(revision_id, file_list[idx + 1])]_vars

\* R.MD was skipped between two fetched files, one of them the dot-file .md
C5_Witness ==
    /\ pc = "returned"
    /\ file_list = <<P_dotfile, P_readme, P_dir>>
    /\ Len(requests) = 4
    /\ Len(results) = 2
    /\ EntriesOf(P_readme) = {}

\* the text after the first newline of a text that begins with the four
\* characters )]}' (nothing when it has no newline); any other text unchanged
AfterFraming(text) ==
    IF /\ Len(text) >= 4
       /\ IsChr(text[1], ")") /\ IsChr(text[2], "]")
       /\ IsChr(text[3], "}") /\ IsChr(text[4], "'")
    THEN IF \E j \in DOMAIN text : IsChr(text[j], "\n")
         THEN LET first == CHOOSE j \in DOMAIN text :
                              /\ IsChr(text[j], "\n")
                              /\ \A k \in 1..(j - 1) : ~IsChr(text[k], "\n")
              IN  [k \in 1..(Len(text) - first) |-> text[first + k]]
         ELSE <<>>
    ELSE text

\* the document a response body holds behind its framing, if any
Framing(text) == json_loads(AfterFraming(text))

Answered(k) == requests[k].resp.exc = None /\ requests[k].resp.status = 200

\* C6: strip_gerrit_json gives the text after the first newline of a text
\* that begins with )]}' (the empty text when there is no newline) and any
\* other text unchanged, and every response is decoded from that text: the
\* change's revision, the file list and each rendered diff are those of the
\* document behind the framing.
C6_FramingStripped ==
    /\ \A k \in DOMAIN requests :
         LET text == requests[k].resp.text
         IN  strip_gerrit_json(text) = AfterFraming(text)
    /\ (Len(requests) >= 1 /\ Answered(1)) =>
         LET d == Framing(requests[1].resp.text)
         IN  (/\ d # JSONDecodeError
              /\ d.t = "object"
              /\ "current_revision" \in DOMAIN d.m
              /\ d.m.current_revision # "")
                => revision_id = d.m.current_revision /\ pc # "start"
                   /\ (pc = "raised" => Len(requests) > 1)
    /\ (Len(requests) >= 2 /\ Answered(2)) =>
         LET d == Framing(requests[2].resp.text)
         IN  (d # JSONDecodeError /\ d.t = "object")
                => Running
                   /\ \A k \in DOMAIN file_list :
                        \E j \in DOMAIN d.keys : d.keys[j] = file_list[k]
    /\ Running =>
         \A j \in 1..idx : \A k \in DiffCalls(file_list[j]) :
           Answered(k) =>
             LET d == Framing(requests[k].resp.text)
                 info == GetContent(d)
                 entry == Header(file_list[j]) \o RenderPrefix(info, Len(info))
                             \o <<"\n", "\n", "\n">>
             IN  (d # JSONDecodeError /\ d.t = "object")
                   => \E n \in DOMAIN results : results[n] = entry

\* a framed change and listing were decoded; of two diffs, the one whose
\* framing line carries more text was rendered and the one that is the bare
\* prefix without a newline failed to decode
C6_Witness ==
    /\ pc = "returned"
    /\ Len(requests) = 4
    /\ requests[1].resp.text = Framed(Obj([current_revision |-> "rev1"]))
    /\ requests[3].resp.text = FramedLong(Obj([content |-> << [b |-> Lines(1)] >>]))
    /\ requests[4].resp.text = PREFIX
    /\ Len(results) = 2
    /\ results[1] = Header(file_list[1]) \o <<"+", "1", "\n", "\n", "\n", "\n">>
    /\ StartsWith(results[2], Header(file_list[2]) \o <<"[Error] ">>)

\* the change response gives no revision to work on
ChangeFails(r) ==
    \/ r.exc # None
    \/ r.status \in 400..599
    \/ LET d == json_loads(strip_gerrit_json(r.text))
       IN  \/ d = JSONDecodeError
           \/ /\ d.t = "object"
              /\ \/ "current_revision" \notin DOMAIN d.m
                 \/ d.m.current_revision = ""

\* the file-list response gives no listing
FilesFails(r) ==
    \/ r.exc # None
    \/ r.status \in 400..599
    \/ json_loads(strip_gerrit_json(r.text)) = JSONDecodeError

\* C7: the change GET comes first, the file-list GET second, the diff GETs
\* after them; a change GET that fails, does not decode or has no
\* current_revision ends the run with an exception and no further GET, and a
\* file-list GET that fails or does not decode ends it with no diff GET and no
\* results.
C7_OrderAndFatal ==
    /\ \A k \in DOMAIN requests :
         UrlKind(requests[k].url) =
            (IF k = 1 THEN "change" ELSE IF k = 2 THEN "files" ELSE "diff")
    /\ (Len(requests) >= 1 /\ ChangeFails(requests[1].resp)) =>
         /\ pc = "raised" /\ raised # None
         /\ Len(requests) = 1
         /\ results = <<>>
    /\ (Len(requests) >= 2 /\ FilesFails(requests[2].resp)) =>
         /\ pc = "raised" /\ raised # None
         /\ Len(requests) = 2
         /\ results = <<>>

\* the run ended on a change without current_revision
C7_Witness ==
    /\ pc = "raised"
    /\ raised = "RuntimeError"
    /\ Len(requests) = 1
    /\ requests[1].resp = Ok(Framed(Obj([status |-> "NEW"])))

\* C8: no URL is requested twice, whatever the fetches answer; when the run
\* returns, every file that is not ignored had its diff requested exactly
\* once and the loop made exactly one iteration per entry of the file list.
C8_NoRetry ==
    /\ \A j, k \in DOMAIN requests : j # k => requests[j].url # requests[k].url
    /\ idx <= Len(file_list)
    /\ Len(requests) <= 2 + Cardinality({j \in 1..idx : ~Denylisted(file_list[j])})
    /\ pc = "returned" =>
         /\ idx = Len(file_list)
         /\ \A j \in 1..Len(file_list) :
              Cardinality(DiffCalls(file_list[j]))
                 = (IF Denylisted(file_list[j]) THEN 0 ELSE 1)

\* the run returned after three iterations, every fetch having failed
C8_Witness ==
    /\ pc = "returned"
    /\ idx = 3
    /\ Len(file_list) = 3
    /\ Len(requests) = 5
    /\ \A k \in 3..5 : DiffFails(requests[k].resp)

\* the keys of the listing that are neither sentinels nor denylisted
RECURSIVE Kept(_)
Kept(keys) ==
    IF keys = <<>> THEN <<>>
    ELSE IF Head(keys) \in Sentinels \/ Denylisted(Head(keys))
         THEN Kept(Tail(keys))
         ELSE <<Head(keys)>> \o Kept(Tail(keys))

\* the diff document has no content or an empty one
NoContent(r) ==
    /\ r.exc = None /\ r.status = 200
    /\ LET d == json_loads(strip_gerrit_json(r.text))
       IN  /\ d # JSONDecodeError
           /\ d.t = "object"
           /\ ("content" \in DOMAIN d.m => d.m.content = <<>>)

\* C9: when the run returns, results has one entry per key of the listing
\* that is neither a sentinel nor ignored, in listing order, each beginning
\* with the header of its file; a diff without content, or with an empty one,
\* gives the header followed by three newlines.
C9_OneEntryPerFile ==
    pc = "returned" =>
      LET kept == Kept(ListingKeys)
      IN  /\ Len(results) = Len(kept)
          /\ \A n \in DOMAIN results :
               /\ StartsWith(results[n], Header(kept[n]))
               /\ \A k \in DiffCalls(kept[n]) :
                    NoContent(requests[k].resp)
                      => results[n] = Header(kept[n]) \o <<"\n", "\n", "\n">>

\* a listing with a sentinel, an ignored file, a file whose diff has no
\* content key and a file whose fetch failed
C9_Witness ==
    /\ pc = "returned"
    /\ ListingKeys = <<COMMIT_MSG, P_readme, P_src>>
    /\ requests[3].resp = Ok(Framed(Obj([change_type |-> "ADDED"])))
    /\ results = << Header(P_src) \o <<"\n", "\n", "\n">> >>

====
